---------------------------- MODULE Spec2Model ----------------------------
(***************************************************************************)
(* Model of localflavor/it/util.py: the Italian fiscal code (SSN) and VAT  *)
(* number helpers.                                                         *)
(*                                                                         *)
(* A Python string is a sequence of one-character strings.  A Python value *)
(* (argument or return value) is a record [kind, chars]:                   *)
(*   kind = "str"   chars = the characters                                 *)
(*   kind = "int"   chars = the decimal digits of a non-negative integer   *)
(*   kind = "none"  chars = << >>                (None)                    *)
(*   kind = "bool"  chars = <<"True">> or <<"False">>                      *)
(*   kind = "raise" chars = <<exception type, detail>>                     *)
(* Integers that only ever reach two digits are TLA+ integers; the VAT     *)
(* number, which has 11 digits or more, is kept as its decimal digits.     *)
(***************************************************************************)
EXTENDS Integers, Sequences, FiniteSets, TLC

VARIABLES arg, op, result, prev

vars == <<arg, op, result, prev>>

-----------------------------------------------------------------------------
(* Python values *)

Str(s) == [kind |-> "str", chars |-> s]
PyInt(ds) == [kind |-> "int", chars |-> ds]
None == [kind |-> "none", chars |-> << >>]
Bool(b) == [kind |-> "bool", chars |-> IF b THEN <<"True">> ELSE <<"False">>]
Raise(exc, detail) == [kind |-> "raise", chars |-> <<exc, detail>>]

NotCalled == [kind |-> "none", chars |-> << >>]

-----------------------------------------------------------------------------
(* Characters *)

Digits == <<"0", "1", "2", "3", "4", "5", "6", "7", "8", "9">>

Upper == <<"A", "B", "C", "D", "E", "F", "G", "H", "I", "J", "K", "L", "M",
           "N", "O", "P", "Q", "R", "S", "T", "U", "V", "W", "X", "Y", "Z">>

Lower == <<"a", "b", "c", "d", "e", "f", "g", "h", "i", "j", "k", "l", "m",
           "n", "o", "p", "q", "r", "s", "t", "u", "v", "w", "x", "y", "z">>

SetOf(seq) == {seq[i] : i \in 1..Len(seq)}

\* list.index(x): the first position (0-based) holding x
Index(seq, x) == (CHOOSE i \in 1..Len(seq) :
                     seq[i] = x /\ \A j \in 1..(i - 1) : seq[j] # x) - 1

LowerSet == SetOf(Lower)

\* str.upper(), character by character
UpperChar(c) == IF c \in LowerSet THEN Upper[Index(Lower, c) + 1] ELSE c

upper(s) == [i \in 1..Len(s) |-> UpperChar(s[i])]

\* int(c) of one decimal digit
DigitVal(c) == Index(Digits, c)

\* str(n) of a non-negative integer (smart_text(n), the digits of "%d" % n)
RECURSIVE NatToStr(_)
NatToStr(n) == IF n < 10 THEN <<Digits[n + 1]>>
               ELSE NatToStr(n \div 10) \o <<Digits[(n % 10) + 1]>>

\* int(s) of a string of decimal digits that fits a machine integer
RECURSIVE DigitsToNat(_)
DigitsToNat(s) == IF Len(s) = 0 THEN 0
                  ELSE 10 * DigitsToNat(SubSeq(s, 1, Len(s) - 1))
                       + DigitVal(s[Len(s)])

Zeros(n) == [i \in 1..n |-> "0"]

\* Python truthiness of an integer and of a string
TruthyInt(n) == n # 0
TruthyStr(s) == Len(s) > 0

\* s[a:b] with 0 <= a <= b
Slice(s, a, b) == SubSeq(s, a + 1, IF b < Len(s) THEN b ELSE Len(s))

-----------------------------------------------------------------------------
(* Fiscal code: syntax *)

MONTHSCODE == <<"A", "B", "C", "D", "E", "H", "L", "M", "P", "R", "S", "T">>

AZ == SetOf(Upper)
D09 == SetOf(Digits)

\* the character classes of PATTERN between ^ and $
PATTERN == <<AZ, AZ, AZ, AZ, AZ, AZ, D09, D09, SetOf(MONTHSCODE), D09, D09,
             AZ, D09, AZ \cup D09, D09, AZ>>

\* "$" without re.MULTILINE: the end of the string, or just before a
\* newline that is the string's last character
DollarMatchesAt(s, pos) ==
    \/ pos = Len(s)
    \/ pos = Len(s) - 1 /\ s[Len(s)] = "\n"

\* re.match(PATTERN, s) is not None
re_match(s) ==
    /\ Len(s) >= Len(PATTERN)
    /\ \A i \in 1..Len(PATTERN) : s[i] \in PATTERN[i]
    /\ DollarMatchesAt(s, Len(PATTERN))

ssn_isvalid(code) == code.kind = "str" /\ re_match(code.chars)

-----------------------------------------------------------------------------
(* Fiscal code: decoding *)

\* "%02d" % n: the sign, then the digits zero-filled to a total width of 2
Fmt02d(n) ==
    LET ds == NatToStr(IF n < 0 THEN 0 - n ELSE n)
        sign == IF n < 0 THEN <<"-">> ELSE << >>
        fill == 2 - Len(sign) - Len(ds)
    IN  sign \o Zeros(IF fill > 0 THEN fill ELSE 0) \o ds

\* day < 32 and day or day - 40
DecodeDay(day) == IF day < 32 /\ TruthyInt(day) THEN day ELSE day - 40

ssn_get_birthday(code) ==
    IF ~ssn_isvalid(code) THEN Raise("AssertionError", "")
    ELSE LET s == code.chars
             day == DecodeDay(DigitsToNat(Slice(s, 9, 11)))
             month == Index(MONTHSCODE, s[9]) + 1
             year == DigitsToNat(Slice(s, 6, 8))
         IN  Str(Fmt02d(day) \o <<"/">> \o Fmt02d(month) \o <<"/">>
                 \o Fmt02d(year))

\* int(code[9:11]) <= 32 and 'M' or 'F'
DecodeSexOffByOne(raw) ==
    IF raw <= 32 /\ TruthyStr(<<"M">>) THEN <<"M">> ELSE <<"F">>

\* int(code[9:11]) < 32 and 'M' or 'F'
DecodeSex(raw) == IF raw < 32 /\ TruthyStr(<<"M">>) THEN <<"M">> ELSE <<"F">>

ssn_get_sex(code) ==
    IF ~ssn_isvalid(code) THEN Raise("AssertionError", "")
    ELSE Str(DecodeSex(DigitsToNat(Slice(code.chars, 9, 11))))

-----------------------------------------------------------------------------
(* Fiscal code: check letter *)

ssn_even_chars ==
    ("0" :> 0) @@ ("1" :> 1) @@ ("2" :> 2) @@ ("3" :> 3) @@ ("4" :> 4) @@
    ("5" :> 5) @@ ("6" :> 6) @@ ("7" :> 7) @@ ("8" :> 8) @@ ("9" :> 9) @@
    ("A" :> 0) @@ ("B" :> 1) @@ ("C" :> 2) @@ ("D" :> 3) @@ ("E" :> 4) @@
    ("F" :> 5) @@ ("G" :> 6) @@ ("H" :> 7) @@ ("I" :> 8) @@ ("J" :> 9) @@
    ("K" :> 10) @@ ("L" :> 11) @@ ("M" :> 12) @@ ("N" :> 13) @@ ("O" :> 14) @@
    ("P" :> 15) @@ ("Q" :> 16) @@ ("R" :> 17) @@ ("S" :> 18) @@ ("T" :> 19) @@
    ("U" :> 20) @@ ("V" :> 21) @@ ("W" :> 22) @@ ("X" :> 23) @@ ("Y" :> 24) @@
    ("Z" :> 25)

ssn_odd_chars ==
    ("0" :> 1) @@ ("1" :> 0) @@ ("2" :> 5) @@ ("3" :> 7) @@ ("4" :> 9) @@
    ("5" :> 13) @@ ("6" :> 15) @@ ("7" :> 17) @@ ("8" :> 19) @@ ("9" :> 21) @@
    ("A" :> 1) @@ ("B" :> 0) @@ ("C" :> 5) @@ ("D" :> 7) @@ ("E" :> 9) @@
    ("F" :> 13) @@ ("G" :> 15) @@ ("H" :> 17) @@ ("I" :> 19) @@ ("J" :> 21) @@
    ("K" :> 2) @@ ("L" :> 4) @@ ("M" :> 18) @@ ("N" :> 20) @@ ("O" :> 11) @@
    ("P" :> 3) @@ ("Q" :> 6) @@ ("R" :> 8) @@ ("S" :> 12) @@ ("T" :> 14) @@
    ("U" :> 16) @@ ("V" :> 10) @@ ("W" :> 22) @@ ("X" :> 25) @@ ("Y" :> 24) @@
    ("Z" :> 23)

\* [chr(x) for x in range(65, 91)]
ssn_check_digits == Upper

\* the table the loop reads at 0-based position i, swapped
WeightTableSwapped(i) == IF i % 2 = 0 THEN ssn_even_chars ELSE ssn_odd_chars

\* the table the loop reads at 0-based position i
WeightTable(i) == IF i % 2 = 0 THEN ssn_odd_chars ELSE ssn_even_chars

\* ssn_check_digits[total % 25]
CheckLetterMod25(total) == ssn_check_digits[(total % 25) + 1]

\* ssn_check_digits[total % 26]
CheckLetter(total) == ssn_check_digits[(total % 26) + 1]

\* the loop "for i in range(0, 15)", from position i with the running total
RECURSIVE CheckDigitLoop(_, _, _)
CheckDigitLoop(ssn, i, total) ==
    IF i = 15 THEN Str(<<CheckLetter(total)>>)
    ELSE IF i >= Len(ssn) THEN Raise("IndexError", "")
    ELSE IF ssn[i + 1] \notin DOMAIN WeightTable(i)
         THEN Raise("ValueError", ssn[i + 1])
    ELSE CheckDigitLoop(ssn, i + 1, total + WeightTable(i)[ssn[i + 1]])

ssn_check_digit(value) ==
    IF value.kind # "str" THEN Raise("AttributeError", "upper")
    ELSE CheckDigitLoop(upper(value.chars), 0, 0)

\* as ssn_validation, but reading the 16th character of the upper-cased value
ssn_validation_upper(ssn_value) ==
    LET check_digit == ssn_check_digit(ssn_value)
    IN  IF check_digit.kind = "raise" THEN check_digit
        ELSE IF Len(ssn_value.chars) < 16 THEN Raise("IndexError", "")
        ELSE IF <<upper(ssn_value.chars)[16]>> # check_digit.chars
             THEN Raise("ValueError", "Check digit does not match.")
        ELSE ssn_value

ssn_validation(ssn_value) ==
    LET check_digit == ssn_check_digit(ssn_value)
    IN  IF check_digit.kind = "raise" THEN check_digit
        ELSE IF Len(ssn_value.chars) < 16 THEN Raise("IndexError", "")
        ELSE IF <<ssn_value.chars[16]>> # check_digit.chars
             THEN Raise("ValueError", "Check digit does not match.")
        ELSE ssn_value

-----------------------------------------------------------------------------
(* VAT number *)

Whitespace == {" ", "\n"}

RECURSIVE LStrip(_)
LStrip(s) == IF Len(s) > 0 /\ s[1] \in Whitespace THEN LStrip(Tail(s)) ELSE s

RECURSIVE RStrip(_)
RStrip(s) == IF Len(s) > 0 /\ s[Len(s)] \in Whitespace
             THEN RStrip(SubSeq(s, 1, Len(s) - 1)) ELSE s

\* the value of a digit string: its digits without the insignificant zeros
RECURSIVE StripZeros(_)
StripZeros(ds) == IF Len(ds) > 1 /\ ds[1] = "0" THEN StripZeros(Tail(ds)) ELSE ds

IsDigit(c) == c \in D09

\* the digits part of an integer literal: digits, single underscores between
IsIntBody(b) ==
    /\ Len(b) > 0
    /\ \A i \in 1..Len(b) : IsDigit(b[i]) \/ b[i] = "_"
    /\ b[1] # "_" /\ b[Len(b)] # "_"
    /\ \A i \in 1..(Len(b) - 1) : ~(b[i] = "_" /\ b[i + 1] = "_")

\* int(x, 0): as int(x), but a non-zero literal may not start with a zero
IntOfBase0(x) ==
    IF x.kind = "int" THEN [ok |-> TRUE, neg |-> FALSE, digits |-> x.chars]
    ELSE IF x.kind # "str" THEN [ok |-> FALSE, neg |-> FALSE, digits |-> << >>]
    ELSE LET t == RStrip(LStrip(x.chars))
             signed == Len(t) > 0 /\ t[1] \in {"+", "-"}
             body == IF signed THEN Tail(t) ELSE t
             ds == SelectSeq(body, IsDigit)
         IN  IF IsIntBody(body) /\ (ds[1] # "0" \/ StripZeros(ds) = <<"0">>)
             THEN [ok |-> TRUE,
                   neg |-> signed /\ t[1] = "-" /\ StripZeros(ds) # <<"0">>,
                   digits |-> StripZeros(ds)]
             ELSE [ok |-> FALSE, neg |-> FALSE, digits |-> << >>]

\* int(x): of an int, itself; of a string, the integer its literal denotes
\* (surrounding whitespace, an optional sign, digits), or ValueError
IntOf(x) ==
    IF x.kind = "int" THEN [ok |-> TRUE, neg |-> FALSE, digits |-> x.chars]
    ELSE IF x.kind # "str" THEN [ok |-> FALSE, neg |-> FALSE, digits |-> << >>]
    ELSE LET t == RStrip(LStrip(x.chars))
             signed == Len(t) > 0 /\ t[1] \in {"+", "-"}
             body == IF signed THEN Tail(t) ELSE t
             ds == SelectSeq(body, IsDigit)
         IN  IF IsIntBody(body)
             THEN [ok |-> TRUE,
                   neg |-> signed /\ t[1] = "-" /\ StripZeros(ds) # <<"0">>,
                   digits |-> StripZeros(ds)]
             ELSE [ok |-> FALSE, neg |-> FALSE, digits |-> << >>]

\* str(n) of the integer n
StrOfInt(n) == IF n.neg THEN <<"-">> \o n.digits ELSE n.digits

\* s.zfill(width): zeros on the left, after a leading sign
zfill(s, width) ==
    IF Len(s) >= width THEN s
    ELSE IF Len(s) > 0 /\ s[1] \in {"+", "-"}
         THEN <<s[1]>> \o Zeros(width - Len(s)) \o Tail(s)
    ELSE Zeros(width - Len(s)) \o s

\* smart_text(x): a string is its own text; the text of an int is its decimal
\* digits, which is how this model holds an int
smart_text(x) == x.chars

\* quotient + remainder of divmod(int(c) * 2, 10)
DoubledDigitSum(c) == ((DigitVal(c) * 2) \div 10) + ((DigitVal(c) * 2) % 10)

\* the loops "for i in range(first, last, 2)" summing f over the characters
RECURSIVE SumEvery2(_, _, _, _)
SumEvery2(s, i, last, doubled) ==
    IF i >= last THEN 0
    ELSE (IF doubled THEN DoubledDigitSum(s[i + 1]) ELSE DigitVal(s[i + 1]))
         + SumEvery2(s, i + 2, last, doubled)

\* 10 - total % 10
CheckDigitValueNoWrap(total) == 10 - (total % 10)

\* (10 - total % 10) % 10
CheckDigitValue(total) == (10 - (total % 10)) % 10

vat_number_check_digit(vat_number) ==
    IF vat_number.kind \notin {"str", "int"} THEN Raise("TypeError", "")
    ELSE LET normalized_vat_number == zfill(smart_text(vat_number), 10)
         IN  IF \E i \in 1..10 : ~IsDigit(normalized_vat_number[i])
             THEN Raise("ValueError", "invalid literal for int()")
             ELSE LET total == SumEvery2(normalized_vat_number, 0, 10, FALSE)
                             + SumEvery2(normalized_vat_number, 1, 11, TRUE)
                  IN  Str(NatToStr(CheckDigitValue(total)))

\* str(int(vat_number)).zfill(11)
Normalize(n) == zfill(StrOfInt(n), 11)

vat_number_validation(vat_number) ==
    LET n == IntOf(vat_number)
    IN  IF ~n.ok
        THEN Raise(IF vat_number.kind = "str" THEN "ValueError" ELSE "TypeError",
                   "invalid literal for int()")
        ELSE LET normalized == Normalize(n)
                 check_digit == vat_number_check_digit(Str(Slice(normalized, 0, 10)))
             IN  IF check_digit.kind = "raise" THEN check_digit
                 ELSE IF <<normalized[11]>> # check_digit.chars
                      THEN Raise("ValueError", "Check digit does not match.")
                 ELSE Str(normalized)

-----------------------------------------------------------------------------
(* The arguments the functions are called with *)

MaxTail == 2
MaxCut == 2
MaxVatTail == 1

Put(s, i, c) == [s EXCEPT ![i] = c]

\* the sequences over S of length 1..n
SeqsUpTo(S, n) == UNION {[1..k -> S] : k \in 1..n}

Code1 == <<"R", "C", "C", "M", "N", "L", "8", "3", "S", "1", "8", "D", "9",
           "6", "9", "H">>
Code2 == <<"C", "N", "T", "C", "H", "R", "8", "3", "T", "4", "1", "D", "9",
           "6", "9", "D">>
Codes == {Code1, Code2}

SubstChars == D09 \cup AZ \cup {"a", "h", "-", " ", "\n"}
TailChars == {"\n", "A", "0"}

\* a code with one character replaced
Substituted == {Put(b, i, c) : b \in Codes, i \in 1..16, c \in SubstChars}

\* a code with any month letter (or F, which is none) and any two day digits
DayMonth == {Put(Put(Put(b, 9, m), 10, d1), 11, d2) :
                b \in Codes, m \in SetOf(MONTHSCODE) \cup {"F"},
                d1 \in D09, d2 \in D09}

\* a code with one of its first two letters and its check letter replaced
Relettered == {Put(Put(b, i, c), 16, k) :
                  b \in Codes, i \in 1..2, c \in AZ, k \in AZ}

\* the 15 characters before the check letter of such a code
Payloads == {SubSeq(s, 1, 15) : s \in Substituted}

Lengthened == {b \o t : b \in Codes, t \in SeqsUpTo(TailChars, MaxTail)}
Shortened == {SubSeq(b, 1, 16 - k) : b \in Codes, k \in 1..MaxCut} \cup {<< >>}
Lowered == {[i \in 1..16 |-> IF b[i] \in AZ THEN Lower[Index(Upper, b[i]) + 1]
                                            ELSE b[i]] : b \in Codes}

SsnInputs ==
    {Str(s) : s \in Substituted \cup DayMonth \cup Relettered \cup Payloads
                    \cup Lengthened \cup Shortened \cup Lowered}
    \cup {PyInt(<<"5">>), None}

Vat10 == <<"1", "2", "3", "4", "5", "6", "7", "0", "0", "1">>
VatTailChars == {"0", "7"}

\* a 10-digit payload with up to one, and up to two, digits replaced
Payloads1 == {Put(Vat10, i, d) : i \in 1..10, d \in D09}
Payloads2 == {Put(p, i, d) : p \in Payloads1, i \in 1..10, d \in D09}

Vat11 == {p \o <<d>> : p \in Payloads1, d \in D09}
VatLong == {v \o t : v \in Vat11, t \in SeqsUpTo(VatTailChars, MaxVatTail)}
VatShort == SeqsUpTo(D09, 2)

VatOdd == { <<" ">> \o Vat10 \o <<"7", " ">>,
            <<"+">> \o Vat10 \o <<"7">>,
            <<"-">> \o Vat10 \o <<"7">>,
            <<"1", "_">> \o Tail(Vat10) \o <<"7">>,
            <<"0", "0", "0">> \o Vat10 \o <<"7">>,
            <<"\n", "1", "8", "\n">>,
            <<"-", "5">>, <<"-", "0">>, <<"1", "_", "_", "8">>, <<"_", "1", "8">>,
            <<"1", "8", "a">>, <<"a", "b", "c">>, << >> }

VatDigitStrings == Payloads2 \cup Vat11 \cup VatLong \cup VatShort

VatInputs ==
    {Str(s) : s \in VatDigitStrings \cup VatOdd}
    \cup {PyInt(s) : s \in {t \in Vat11 \cup VatLong \cup VatShort :
                               StripZeros(t) = t}}
    \cup {None}

-----------------------------------------------------------------------------
(* The calls *)

Init ==
    /\ arg \in SsnInputs
    /\ op = "none"
    /\ result = NotCalled
    /\ prev = NotCalled

Call_ssn_isvalid ==
    /\ op' = "ssn_isvalid"
    /\ result' = Bool(ssn_isvalid(arg))
    /\ UNCHANGED <<arg, prev>>

Call_ssn_get_birthday ==
    /\ op' = "ssn_get_birthday"
    /\ result' = ssn_get_birthday(arg)
    /\ UNCHANGED <<arg, prev>>

Call_ssn_get_sex ==
    /\ op' = "ssn_get_sex"
    /\ result' = ssn_get_sex(arg)
    /\ UNCHANGED <<arg, prev>>

Call_ssn_check_digit ==
    /\ op' = "ssn_check_digit"
    /\ result' = ssn_check_digit(arg)
    /\ UNCHANGED <<arg, prev>>

Call_ssn_validation ==
    /\ op' = "ssn_validation"
    /\ result' = ssn_validation(arg)
    /\ UNCHANGED <<arg, prev>>

Next ==
    \/ Call_ssn_isvalid
    \/ Call_ssn_get_birthday
    \/ Call_ssn_get_sex
    \/ Call_ssn_check_digit
    \/ Call_ssn_validation

Spec == Init /\ [][Next]_vars

InitVat ==
    /\ arg \in VatInputs
    /\ op = "none"
    /\ result = NotCalled
    /\ prev = NotCalled

Call_vat_number_check_digit ==
    /\ op' = "vat_number_check_digit"
    /\ result' = vat_number_check_digit(arg)
    /\ UNCHANGED <<arg, prev>>

Call_vat_number_validation ==
    /\ op' = "vat_number_validation"
    /\ result' = vat_number_validation(arg)
    /\ UNCHANGED <<arg, prev>>

\* the value a validation returned is validated again
Revalidate ==
    /\ op = "vat_number_validation"
    /\ result.kind = "str"
    /\ arg' = result
    /\ prev' = result
    /\ op' = "revalidation"
    /\ result' = vat_number_validation(result)

NextVat ==
    \/ Call_vat_number_check_digit
    \/ Call_vat_number_validation
    \/ Revalidate

SpecVat == InitVat /\ [][NextVat]_vars

-----------------------------------------------------------------------------
(* Fiscal code: properties of the syntax check and of the decoding *)

\* the structure of a fiscal code, field by field
IsFiscalCodeShape(s) ==
    /\ Len(s) = 16
    /\ \A i \in 1..6 : s[i] \in AZ
    /\ s[7] \in D09 /\ s[8] \in D09
    /\ s[9] \in {"A", "B", "C", "D", "E", "H", "L", "M", "P", "R", "S", "T"}
    /\ s[10] \in D09 /\ s[11] \in D09
    /\ s[12] \in AZ
    /\ s[13] \in D09
    /\ s[14] \in AZ \cup D09
    /\ s[15] \in D09
    /\ s[16] \in AZ

\* C1: ssn_isvalid returns true exactly for the strings of 16 characters
\* that have the structure of a fiscal code, and false (never an error) for
\* every other string, a code followed by a line break included, and for
\* every value that is not a string.
C1_ValidIffSixteenAndShaped ==
    op = "ssn_isvalid" =>
        result = Bool(arg.kind = "str" /\ IsFiscalCodeShape(arg.chars))

\* the integer the two day digits of a code denote
RawDay(s) == 10 * DigitVal(s[10]) + DigitVal(s[11])

\* the fields of a string, split at "/"
RECURSIVE Fields(_)
Fields(s) ==
    IF \A i \in 1..Len(s) : s[i] # "/" THEN <<s>>
    ELSE LET k == CHOOSE i \in 1..Len(s) :
                      s[i] = "/" /\ \A j \in 1..(i - 1) : s[j] # "/"
         IN  <<SubSeq(s, 1, k - 1)>> \o Fields(SubSeq(s, k + 1, Len(s)))

\* the integer a field of digits, with or without a minus sign, denotes
FieldValue(f) ==
    IF Len(f) > 0 /\ f[1] = "-" THEN 0 - DigitsToNat(Tail(f))
    ELSE DigitsToNat(f)

\* C2: for an accepted code, ssn_get_birthday returns day/month/year where
\* the day is the value r of the day digits when r <= 31 (r = 0 included) and
\* r - 40 when r > 31, the month is the 1-based place of the month letter in
\* A,B,C,D,E,H,L,M,P,R,S,T and the year is the two year digits as they are.
C2_BirthdayFields ==
    (op = "ssn_get_birthday" /\ ssn_isvalid(arg)) =>
        /\ result.kind = "str"
        /\ LET f == Fields(result.chars)
               r == RawDay(arg.chars)
           IN  /\ Len(f) = 3
               /\ FieldValue(f[1]) = (IF r <= 31 THEN r ELSE r - 40)
               /\ FieldValue(f[2]) = Index(<<"A", "B", "C", "D", "E", "H", "L",
                                            "M", "P", "R", "S", "T">>,
                                          arg.chars[9]) + 1
               /\ f[3] = <<arg.chars[7], arg.chars[8]>>

\* C3: for an accepted code, whatever its two day digits, the birthday has
\* the shape DD/MM/YY: 8 characters, digits except for the two "/".
C3_BirthdayShape ==
    (op = "ssn_get_birthday" /\ ssn_isvalid(arg)) =>
        /\ result.kind = "str"
        /\ Len(result.chars) = 8
        /\ \A i \in 1..8 : IF i \in {3, 6} THEN result.chars[i] = "/"
                           ELSE result.chars[i] \in D09

\* C8: for an accepted code, ssn_get_sex returns M when the value of the day
\* digits is less than 32 and F otherwise, and nothing else.
C8_SexFromRawDay ==
    (op = "ssn_get_sex" /\ ssn_isvalid(arg)) =>
        /\ result = Str(IF RawDay(arg.chars) < 32 THEN <<"M">> ELSE <<"F">>)
        /\ result.chars \in {<<"M">>, <<"F">>}

C8_Witness ==
    /\ op = "ssn_get_sex"
    /\ ssn_isvalid(arg)
    /\ RawDay(arg.chars) = 32
    /\ result = Str(<<"F">>)

-----------------------------------------------------------------------------
(* Fiscal code: properties of the check letter *)

\* the 36 characters in the order 0..9, A..Z, and the national weights
Alnum == Digits \o Upper
AlnumSet == SetOf(Alnum)

OddPositionWeights ==
    <<1, 0, 5, 7, 9, 13, 15, 17, 19, 21,
      1, 0, 5, 7, 9, 13, 15, 17, 19, 21, 2, 4, 18, 20, 11, 3, 6, 8, 12, 14,
      16, 10, 22, 25, 24, 23>>

EvenPositionWeights ==
    <<0, 1, 2, 3, 4, 5, 6, 7, 8, 9,
      0, 1, 2, 3, 4, 5, 6, 7, 8, 9, 10, 11, 12, 13, 14, 15, 16, 17, 18, 19,
      20, 21, 22, 23, 24, 25>>

\* the weight of character c at 0-based position i
Weight(c, i) == IF i % 2 = 0 THEN OddPositionWeights[Index(Alnum, c) + 1]
                ELSE EvenPositionWeights[Index(Alnum, c) + 1]

\* the sum of the weights of the characters at 0-based positions 0..n-1
RECURSIVE WeightedSum(_, _)
WeightedSum(s, n) == IF n = 0 THEN 0
                     ELSE WeightedSum(s, n - 1) + Weight(s[n], n - 1)

\* the first 15 characters, upper-cased, are all in [0-9A-Z]
HasPayload(v) ==
    /\ v.kind = "str"
    /\ Len(v.chars) >= 15
    /\ \A i \in 1..15 : UpperChar(v.chars[i]) \in AlnumSet

\* C4: for a string whose first 15 characters upper-case into [0-9A-Z],
\* ssn_check_digit returns the letter chr(65 + (S mod 26)), S the sum of the
\* national weights (odd-position table at even 0-based positions, even-
\* position table at odd ones); one letter A..Z, decided by those 15
\* characters alone.
C4_CheckLetterIsWeightedSum ==
    (op = "ssn_check_digit" /\ HasPayload(arg)) =>
        LET payload == SubSeq(upper(arg.chars), 1, 15)
        IN  /\ result = Str(<<Upper[(WeightedSum(payload, 15) % 26) + 1]>>)
            /\ result.chars[1] \in AZ
            /\ result = ssn_check_digit(Str(payload))

C4_Witness ==
    /\ op = "ssn_check_digit"
    /\ arg = Str(Code1)
    /\ result = Str(<<"H">>)

ChecksumMismatch == Raise("ValueError", "Check digit does not match.")

\* C5: for a code of 16 characters or more on which ssn_check_digit is
\* defined, ssn_validation returns the code as it is exactly when its 16th
\* character is that check letter and raises the mismatch error otherwise; an
\* accepted code with its 16th letter replaced by any other letter is refused.
C5_ValidationIffCheckLetter ==
    (op = "ssn_validation" /\ HasPayload(arg) /\ Len(arg.chars) >= 16) =>
        /\ IF <<arg.chars[16]>> = ssn_check_digit(arg).chars
           THEN result = arg
           ELSE result = ChecksumMismatch
        /\ result = arg =>
               \A c \in AZ \ {arg.chars[16]} :
                   ssn_validation(Str(Put(arg.chars, 16, c))) = ChecksumMismatch

C5_Witness ==
    /\ op = "ssn_validation"
    /\ ssn_isvalid(arg)
    /\ arg.chars \notin Codes
    /\ result = arg

\* the characters of the kind of c: the digits, or the capital letters
SameKind(c) == IF c \in D09 THEN D09 ELSE AZ

\* C10: in a string of 15 characters of [0-9A-Z], replacing one character by
\* another of its kind changes the check letter, so that the changed string
\* followed by the original check letter is refused by ssn_validation.
C10_SubstitutionChangesCheckLetter ==
    (/\ op = "ssn_check_digit"
     /\ arg.kind = "str"
     /\ Len(arg.chars) = 15
     /\ \A i \in 1..15 : arg.chars[i] \in AlnumSet) =>
        /\ result.kind = "str"
        /\ \A i \in 1..15 : \A c \in SameKind(arg.chars[i]) \ {arg.chars[i]} :
              LET changed == Put(arg.chars, i, c)
              IN  /\ ssn_check_digit(Str(changed)) # result
                  /\ ssn_validation(Str(changed \o result.chars))
                         = ChecksumMismatch

C10_Witness ==
    /\ op = "ssn_check_digit"
    /\ arg = Str(SubSeq(Code1, 1, 15))
    /\ result = Str(<<"H">>)

-----------------------------------------------------------------------------
(* VAT number: properties *)

IsDigits(s) == \A i \in 1..Len(s) : s[i] \in D09

\* C6: a value vat_number_validation returns is a string of exactly 11
\* decimal digits whose 11th digit is the check digit of the first 10.
C6_ReturnsElevenDigits ==
    (op \in {"vat_number_validation", "revalidation"} /\ result.kind = "str") =>
        /\ Len(result.chars) = 11
        /\ IsDigits(result.chars)
        /\ <<result.chars[11]>>
               = vat_number_check_digit(Str(SubSeq(result.chars, 1, 10))).chars

\* the sum T of a 10-digit string: the digits at 0-based positions
\* 0,2,4,6,8 and, for each digit d at 1,3,5,7,9, (2d div 10) + (2d mod 10)
VatSum(s) ==
    LET d(i) == DigitVal(s[i + 1])
        f(i) == ((2 * d(i)) \div 10) + ((2 * d(i)) % 10)
    IN  d(0) + d(2) + d(4) + d(6) + d(8) + f(1) + f(3) + f(5) + f(7) + f(9)

\* C7: for a 10-digit string vat_number_check_digit returns the one digit
\* (10 - (T mod 10)) mod 10, and 12345670017 passes vat_number_validation.
C7_VatCheckDigit ==
    /\ (/\ op = "vat_number_check_digit"
        /\ arg.kind = "str"
        /\ Len(arg.chars) = 10
        /\ IsDigits(arg.chars)) =>
           /\ result = Str(<<Digits[((10 - (VatSum(arg.chars) % 10)) % 10) + 1]>>)
           /\ Len(result.chars) = 1
           /\ result.chars[1] \in D09
    /\ (op = "vat_number_validation" /\ arg = Str(Vat10 \o <<"7">>)) =>
           result = arg

C7_Witness ==
    /\ op = "vat_number_check_digit"
    /\ arg.kind = "str"
    /\ Len(arg.chars) = 10
    /\ IsDigits(arg.chars)
    /\ VatSum(arg.chars) % 10 = 0
    /\ result = Str(<<"0">>)

\* C9: validating again a value that vat_number_validation returned
\* succeeds and returns that same value.
C9_RevalidationReturnsSame ==
    op = "revalidation" => (result.kind = "str" /\ result = prev)

C9_Witness ==
    /\ op = "revalidation"
    /\ prev = Str(Zeros(9) \o <<"1", "8">>)
    /\ result = prev

=============================================================================
